---------------------------- MODULE Spec2Model ----------------------------
(***************************************************************************)
(* Model of the DCAP quote verifier (untrusted/quote_verify/src/lib.rs)    *)
(* and of the sealed-data wrappers (tservice/types/src/seal.rs).           *)
(*                                                                         *)
(* A Quote owns a byte vector.  The three verification operations read    *)
(* fixed byte ranges of it.  Rust slices are 0-based and half-open; a      *)
(* range b[s..e] is modelled by Slice(b, s, e), and an out-of-range index  *)
(* (which makes the Rust program panic) by the result "panic".            *)
(*                                                                         *)
(* The external crates (sha2, p256, x509_parser) are not part of the       *)
(* repository; they are modelled by small deterministic stand-ins that     *)
(* keep what the operations rely on: a digest that depends on every byte   *)
(* and on the length, an ideal signature scheme (one valid signature per   *)
(* key and message), a curve-membership test on decoded keys, and a PEM    *)
(* parser that reads only the first encapsulated block.                    *)
(***************************************************************************)
EXTENDS Integers, Sequences, FiniteSets, TLC

VARIABLES
    constructed,  \* TRUE once Quote::from_bytes has returned a Quote
    fixture,      \* the caller's reference buffer the input was derived from
    input,        \* the slice handed to Quote::from_bytes
    bytes,        \* Quote.bytes
    first,        \* per operation: result of its first call ("none" before)
    last,         \* per operation: result of its latest call ("none" before)
    ncalls,       \* per operation: number of calls made so far
    caller,       \* the thread that made the latest call (0 before)
    tryFromType,  \* seal.rs: the wrapper of the latest try_from ("none" before)
    tryFromInput, \* seal.rs: the slice handed to the latest try_from
    tryFromResult \* seal.rs: what the latest try_from returned ("none" before)

quoteVars == <<constructed, fixture, input, bytes, first, last, ncalls, caller>>

sealVars == <<tryFromType, tryFromInput, tryFromResult>>

vars == <<constructed, fixture, input, bytes, first, last, ncalls, caller,
          tryFromType, tryFromInput, tryFromResult>>

----------------------------------------------------------------------------
(* Bounds of the model. *)

MaxCalls == 3
NumThreads == 2

Threads == 1..NumThreads

----------------------------------------------------------------------------
(* Layout constants, lib.rs lines 18-86. *)

QUOTE_HEADER_SIZE == 48
ENCLAVE_REPORT_SIZE == 384
ENCLAVE_REPORT_DATA_SIZE == 64
SIGNATURE_SIZE == 64
KEY_SIZE == 64
ISV_ENCLAVE_SIGNATURE_START == QUOTE_HEADER_SIZE + ENCLAVE_REPORT_SIZE + 4
ATTESTATION_KEY_START == ISV_ENCLAVE_SIGNATURE_START + SIGNATURE_SIZE
QUOTING_ENCLAVE_REPORT_START == ATTESTATION_KEY_START + KEY_SIZE
QUOTING_ENCLAVE_SIGNATURE_START == QUOTING_ENCLAVE_REPORT_START + ENCLAVE_REPORT_SIZE
QUOTING_ENCLAVE_REPORT_DATA_START == QUOTING_ENCLAVE_REPORT_START + 320
QUOTING_ENCLAVE_REPORT_DATA_DIGEST_SIZE == 32
QUOTING_ENCLAVE_AUTHENTICATION_DATA_SIZE_START ==
    QUOTING_ENCLAVE_SIGNATURE_START + SIGNATURE_SIZE
QUOTING_ENCLAVE_AUTHENTICATION_DATA_START ==
    QUOTING_ENCLAVE_AUTHENTICATION_DATA_SIZE_START + 2
\* The hardcoded start of the PCK certificate, 0x41C (get_pck_pem).
PCK_PEM_START == 1052

----------------------------------------------------------------------------
(* Results of an operation.  The String payload of an Error is dropped.   *)

Ok == "Ok"
ErrCertificate == "Error::Certificate"
ErrPemParsing == "Error::PemParsing"
ErrSignature == "Error::Signature"
ErrKey == "Error::Key"
ErrAttestationKey == "Error::AttestationKey"
Panic == "panic"
None == "none"

Errors == {ErrCertificate, ErrPemParsing, ErrSignature, ErrKey, ErrAttestationKey}

Operations == {"verify_enclave_report_body", "verify_quoting_enclave_report",
               "verify_attestation_key"}

----------------------------------------------------------------------------
(* Slices.  InRange is the bounds check Rust's Index performs; Slice is    *)
(* b[s..e] when the check passes.                                          *)

InRange(b, s, e) == s <= e /\ e <= Len(b)

Slice(b, s, e) == SubSeq(b, s + 1, e)

SliceFrom(b, s) == Slice(b, s, Len(b))

\* s[i] for i <= hi, 0 beyond.
At(s, i, hi) == IF i <= hi THEN s[i] ELSE 0

RECURSIVE SumRange(_, _, _)
SumRange(s, lo, hi) ==
    IF hi - lo >= 8
    THEN LET mid == (lo + hi) \div 2
         IN  SumRange(s, lo, mid) + SumRange(s, mid + 1, hi)
    ELSE At(s, lo, hi) + At(s, lo + 1, hi) + At(s, lo + 2, hi) + At(s, lo + 3, hi)
           + At(s, lo + 4, hi) + At(s, lo + 5, hi) + At(s, lo + 6, hi)
           + At(s, lo + 7, hi)

RECURSIVE WeightedRange(_, _, _)
WeightedRange(s, lo, hi) ==
    IF hi - lo >= 8
    THEN LET mid == (lo + hi) \div 2
         IN  WeightedRange(s, lo, mid) + WeightedRange(s, mid + 1, hi)
    ELSE lo * At(s, lo, hi) + (lo + 1) * At(s, lo + 1, hi)
           + (lo + 2) * At(s, lo + 2, hi) + (lo + 3) * At(s, lo + 3, hi)
           + (lo + 4) * At(s, lo + 4, hi) + (lo + 5) * At(s, lo + 5, hi)
           + (lo + 6) * At(s, lo + 6, hi) + (lo + 7) * At(s, lo + 7, hi)

ByteSum(s) == SumRange(s, 1, Len(s))

WeightedSum(s) == WeightedRange(s, 1, Len(s))

Zeros(n) == [i \in 1..n |-> 0]

----------------------------------------------------------------------------
(* sha2::Sha256 (lib.rs lines 123-131): a 32-byte digest of the bytes fed  *)
(* to the hasher.  The stand-in depends on the length, on every byte and   *)
(* on every byte's position.                                               *)

Sha256(s) ==
    LET a == ByteSum(s)
        w == WeightedSum(s)
        l == Len(s)
    IN  [k \in 1..32 |-> (a * k + w * (k + 2) + l * (k + 5) + 17 * k + 1) % 256]

----------------------------------------------------------------------------
(* p256: keys and signatures.                                              *)
(* A key is its SEC1 encoding: tag 4, then X and Y of equal length.  The   *)
(* stand-in curve is y^2 = x^3 + x + 1 over F_23, with a coordinate read   *)
(* as the sum of its bytes.  Signatures are those of an ideal scheme: the  *)
(* only triples <<key, message, signature>> that verify are the ones the   *)
(* holder of the private key produced (SignedStatements below).            *)

OnCurve(x, y) == (y * y) % 23 = (x * x * x + x + 1) % 23

\* EncodedPoint::from_untagged_bytes: prepend the uncompressed-point tag.
from_untagged_bytes(k) == <<4>> \o k

\* VerifyingKey::from_encoded_point: the point must be uncompressed and on
\* the curve.
ValidPoint(p) ==
    /\ Len(p) >= 3
    /\ (Len(p) - 1) % 2 = 0
    /\ p[1] = 4
    /\ LET h == (Len(p) - 1) \div 2
       IN  OnCurve(SumRange(p, 2, 1 + h) % 23, SumRange(p, 2 + h, 1 + 2 * h) % 23)

\* Signature::try_from(&[u8]): r and s must both be non-zero scalars.
SignatureWellFormed(sig) ==
    /\ Len(sig) = 64
    /\ SumRange(sig, 1, 32) # 0
    /\ SumRange(sig, 33, 64) # 0

----------------------------------------------------------------------------
(* Reference material: what the quoting enclave and the platform signed.   *)
(* A reference quote carries n bytes of QE authentication data.            *)

\* Authentication data lengths of the reference quotes.
AuthDataLengths == {0, 32, 40, 258}

RefHeaderAndReportBody == [i \in 1..432 |-> (i * 7) % 256] \o <<>>

RefAttestationKey ==
    [i \in 1..64 |-> IF i = 1 THEN 3 ELSE IF i = 33 THEN 10 ELSE 0] \o <<>>

RefPckPoint ==
    <<4>> \o [i \in 1..64 |-> IF i = 1 THEN 1 ELSE IF i = 33 THEN 7 ELSE 0]

RefAuthData(n) == [i \in 1..n |-> (i * 3 + 1) % 256] \o <<>>

RefQeReport(n) ==
    LET digest == Sha256(RefAttestationKey \o RefAuthData(n))
    IN  [i \in 1..384 |->
            IF i <= 320 THEN (i * 5 + 2) % 256
            ELSE IF i <= 352 THEN digest[i - 320]
            ELSE 0] \o <<>>

RefIsvSignature == [i \in 1..64 |-> (i * 11 + 5) % 256] \o <<>>

RefQeSignature(n) == [i \in 1..64 |-> (i * 13 + n + 1) % 256] \o <<>>

\* Every <<key, message, signature>> a private-key holder produced: the
\* attestation key signed the header and report body of the caller's
\* reference quote, the PCK key signed its QE report.
SignedStatements ==
    IF Len(fixture) < 1012 THEN {}
    ELSE {<<from_untagged_bytes(SubSeq(fixture, 501, 564)), SubSeq(fixture, 1, 432),
            SubSeq(fixture, 437, 500)>>,
          <<RefPckPoint, SubSeq(fixture, 565, 948), SubSeq(fixture, 949, 1012)>>}

\* VerifyingKey::verify.
EcdsaVerify(key, msg, sig) == <<key, msg, sig>> \in SignedStatements

----------------------------------------------------------------------------
(* x509_parser: PEM and X.509.                                             *)
(* Stand-in PEM: the begin line is the two bytes "-B", the end line the    *)
(* two bytes "-E"; between them every character c >= 32 other than "-"     *)
(* encodes the value c - 32.  Stand-in DER certificate:                    *)
(*   <<48, length, serial, 3, spkiLength, algorithm, point..., signature>> *)
(* The serial and the certificate's own signature are carried but, as in   *)
(* the code, never validated.                                              *)

PemFooterAt(data) ==
    LET dashes == {j \in 3..Len(data) : data[j] = 45}
    IN  IF dashes = {} THEN 0
        ELSE CHOOSE j \in dashes : \A k \in dashes : j <= k

\* pem::parse_x509_pem: reads the first PEM block of data; what follows the
\* block is returned as the remainder, which get_pck_pem discards.
parse_x509_pem(data) ==
    IF Len(data) < 2 \/ data[1] # 45 \/ data[2] # 66
    THEN [err |-> TRUE, contents |-> <<>>]
    ELSE LET f == PemFooterAt(data)
         IN  IF f = 0 \/ f + 1 > Len(data) \/ data[f + 1] # 69
             THEN [err |-> TRUE, contents |-> <<>>]
             ELSE IF \E j \in 3..(f - 1) : data[j] < 32
             THEN [err |-> TRUE, contents |-> <<>>]
             ELSE [err |-> FALSE,
                   contents |-> [j \in 1..(f - 3) |-> data[j + 2] - 32] \o <<>>]

\* Pem::parse_x509: decodes the certificate; public_key().raw is the
\* SubjectPublicKeyInfo.
parse_x509(der) ==
    IF \/ Len(der) < 6
       \/ der[1] # 48
       \/ der[2] # Len(der) - 2
       \/ der[4] # 3
       \/ der[5] + 6 # Len(der)
    THEN [err |-> TRUE, spki |-> <<>>]
    ELSE [err |-> FALSE, spki |-> SubSeq(der, 6, 5 + der[5])]

\* VerifyingKey::from_public_key_der: algorithm identifier, then the point.
from_public_key_der(spki) ==
    IF Len(spki) < 1 \/ spki[1] # 7 \/ ~ValidPoint(Tail(spki))
    THEN [err |-> TRUE, key |-> <<>>]
    ELSE [err |-> FALSE, key |-> Tail(spki)]

----------------------------------------------------------------------------
(* Quote accessors, lib.rs lines 148-207.  A record with panic = TRUE is   *)
(* an index out of range.                                                  *)

Panicked == [panic |-> TRUE, err |-> FALSE, val |-> <<>>]

Got(v) == [panic |-> FALSE, err |-> FALSE, val |-> v]

Failed == [panic |-> FALSE, err |-> TRUE, val |-> <<>>]

\* Variant: the length read most significant byte first.
u16_from_be_bytes(two) == 256 * two[1] + two[2]

\* u16::from_le_bytes
u16_from_le_bytes(two) == two[1] + 256 * two[2]

\* lib.rs 148-159
get_qe_authentication_data(b) ==
    LET s0 == QUOTING_ENCLAVE_AUTHENTICATION_DATA_SIZE_START
    IN  IF ~InRange(b, s0, s0 + 2) THEN Panicked
        ELSE LET data_length == u16_from_le_bytes(Slice(b, s0, s0 + 2))
                 d0 == QUOTING_ENCLAVE_AUTHENTICATION_DATA_START
             IN  IF ~InRange(b, d0, d0 + data_length) THEN Panicked
                 ELSE Got(Slice(b, d0, d0 + data_length))

\* lib.rs 162-164
get_header_and_enclave_report_body(b) ==
    IF ~InRange(b, 0, QUOTE_HEADER_SIZE + ENCLAVE_REPORT_SIZE) THEN Panicked
    ELSE Got(Slice(b, 0, QUOTE_HEADER_SIZE + ENCLAVE_REPORT_SIZE))

\* lib.rs 167-172
get_attestation_key(b) ==
    IF ~InRange(b, ATTESTATION_KEY_START, ATTESTATION_KEY_START + KEY_SIZE)
    THEN Panicked
    ELSE LET point == from_untagged_bytes(
                 Slice(b, ATTESTATION_KEY_START, ATTESTATION_KEY_START + KEY_SIZE))
         IN  IF ValidPoint(point) THEN Got(point) ELSE Failed

\* The offset get_pck_pem starts parsing at, lib.rs 180.
PckPemOffset(b) == PCK_PEM_START

\* Variant: a buffer that ends before the certificate start is a parse error.
get_pck_pem_checked(b) ==
    IF ~InRange(b, PckPemOffset(b), Len(b)) THEN Failed
    ELSE LET pem == parse_x509_pem(SliceFrom(b, PckPemOffset(b)))
         IN  IF pem.err THEN Failed ELSE Got(pem.contents)

\* lib.rs 177-182
get_pck_pem(b) ==
    IF ~InRange(b, PckPemOffset(b), Len(b)) THEN Panicked
    ELSE LET pem == parse_x509_pem(SliceFrom(b, PckPemOffset(b)))
         IN  IF pem.err THEN Failed ELSE Got(pem.contents)

\* lib.rs 185-188
get_quoting_enclave_report(b) ==
    IF ~InRange(b, QUOTING_ENCLAVE_REPORT_START,
                QUOTING_ENCLAVE_REPORT_START + ENCLAVE_REPORT_SIZE)
    THEN Panicked
    ELSE Got(Slice(b, QUOTING_ENCLAVE_REPORT_START,
                   QUOTING_ENCLAVE_REPORT_START + ENCLAVE_REPORT_SIZE))

\* Variant: the outcome of key.verify is dropped.
verify_signature_unverified(b, msg, signature_offset, key) ==
    IF ~InRange(b, signature_offset, signature_offset + SIGNATURE_SIZE) THEN Panic
    ELSE LET signature == Slice(b, signature_offset, signature_offset + SIGNATURE_SIZE)
         IN  IF ~SignatureWellFormed(signature) THEN ErrSignature ELSE Ok

\* lib.rs 198-207
verify_signature(b, msg, signature_offset, key) ==
    IF ~InRange(b, signature_offset, signature_offset + SIGNATURE_SIZE) THEN Panic
    ELSE LET signature == Slice(b, signature_offset, signature_offset + SIGNATURE_SIZE)
         IN  IF ~SignatureWellFormed(signature) THEN ErrSignature
             ELSE IF EcdsaVerify(key, msg, signature) THEN Ok
             ELSE ErrSignature

----------------------------------------------------------------------------
(* The verification operations, lib.rs lines 106-146.                      *)

\* Variant: the signature is parsed before the key is decoded.
verify_enclave_report_body_signature_first(b) ==
    LET msg == get_header_and_enclave_report_body(b)
        off == ISV_ENCLAVE_SIGNATURE_START
    IN  IF msg.panic \/ ~InRange(b, off, off + SIGNATURE_SIZE) THEN Panic
        ELSE IF ~SignatureWellFormed(Slice(b, off, off + SIGNATURE_SIZE))
        THEN ErrSignature
        ELSE LET key == get_attestation_key(b)
             IN  IF key.panic THEN Panic
                 ELSE IF key.err THEN ErrKey
                 ELSE verify_signature(b, msg.val, off, key.val)

\* Variant: the signature data length at 432..436 is checked against the
\* length of the buffer first.
verify_enclave_report_body_checking_length(b) ==
    LET msg == get_header_and_enclave_report_body(b)
    IN  IF msg.panic THEN Panic
        ELSE LET key == get_attestation_key(b)
             IN  IF key.panic THEN Panic
                 ELSE IF key.err THEN ErrKey
                 ELSE IF b[433] + 256 * b[434] + 65536 * b[435] # Len(b) - 436
                 THEN ErrSignature
                 ELSE verify_signature(b, msg.val, ISV_ENCLAVE_SIGNATURE_START, key.val)

\* lib.rs 106-110
verify_enclave_report_body(b) ==
    LET msg == get_header_and_enclave_report_body(b)
    IN  IF msg.panic THEN Panic
        ELSE LET key == get_attestation_key(b)
             IN  IF key.panic THEN Panic
                 ELSE IF key.err THEN ErrKey
                 ELSE verify_signature(b, msg.val, ISV_ENCLAVE_SIGNATURE_START, key.val)

\* Variant: a key that fails to decode is reported as a certificate error.
verify_quoting_enclave_report_certificate_error(b) ==
    LET msg == get_quoting_enclave_report(b)
    IN  IF msg.panic THEN Panic
        ELSE LET pem == get_pck_pem(b)
             IN  IF pem.panic THEN Panic
                 ELSE IF pem.err THEN ErrPemParsing
                 ELSE LET cert == parse_x509(pem.val)
                      IN  IF cert.err THEN ErrPemParsing
                          ELSE LET key == from_public_key_der(cert.spki)
                               IN  IF key.err THEN ErrCertificate
                                   ELSE verify_signature(b, msg.val,
                                            QUOTING_ENCLAVE_SIGNATURE_START, key.key)

\* Variant: a key that fails to decode is reported as a key error, as
\* get_attestation_key reports it.
verify_quoting_enclave_report_key_error(b) ==
    LET msg == get_quoting_enclave_report(b)
    IN  IF msg.panic THEN Panic
        ELSE LET pem == get_pck_pem(b)
             IN  IF pem.panic THEN Panic
                 ELSE IF pem.err THEN ErrPemParsing
                 ELSE LET cert == parse_x509(pem.val)
                      IN  IF cert.err THEN ErrPemParsing
                          ELSE LET key == from_public_key_der(cert.spki)
                               IN  IF key.err THEN ErrKey
                                   ELSE verify_signature(b, msg.val,
                                            QUOTING_ENCLAVE_SIGNATURE_START, key.key)

\* lib.rs 113-119
verify_quoting_enclave_report(b) ==
    LET msg == get_quoting_enclave_report(b)
    IN  IF msg.panic THEN Panic
        ELSE LET pem == get_pck_pem(b)
             IN  IF pem.panic THEN Panic
                 ELSE IF pem.err THEN ErrPemParsing
                 ELSE LET cert == parse_x509(pem.val)
                      IN  IF cert.err THEN ErrPemParsing
                          ELSE LET key == from_public_key_der(cert.spki)
                               IN  IF key.err THEN ErrSignature
                                   ELSE verify_signature(b, msg.val,
                                            QUOTING_ENCLAVE_SIGNATURE_START, key.key)

\* Variant: the zero padding after the digest is not checked.
verify_attestation_key_digest_only(b) ==
    IF ~InRange(b, ATTESTATION_KEY_START, ATTESTATION_KEY_START + KEY_SIZE) THEN Panic
    ELSE
    LET key == Slice(b, ATTESTATION_KEY_START, ATTESTATION_KEY_START + KEY_SIZE)
        authentication_data == get_qe_authentication_data(b)
    IN  IF authentication_data.panic THEN Panic
        ELSE
        LET hash == Sha256(key \o authentication_data.val)
            start == QUOTING_ENCLAVE_REPORT_DATA_START
            end == start + QUOTING_ENCLAVE_REPORT_DATA_DIGEST_SIZE
        IN  IF ~InRange(b, start, end) THEN Panic
            ELSE IF Slice(b, start, end) = hash THEN Ok
            ELSE ErrAttestationKey

\* lib.rs 122-146
verify_attestation_key(b) ==
    IF ~InRange(b, ATTESTATION_KEY_START, ATTESTATION_KEY_START + KEY_SIZE) THEN Panic
    ELSE
    LET key == Slice(b, ATTESTATION_KEY_START, ATTESTATION_KEY_START + KEY_SIZE)
        authentication_data == get_qe_authentication_data(b)
    IN  IF authentication_data.panic THEN Panic
        ELSE
        LET hash == Sha256(key \o authentication_data.val)
            start == QUOTING_ENCLAVE_REPORT_DATA_START
            end == start + QUOTING_ENCLAVE_REPORT_DATA_DIGEST_SIZE
            end2 == QUOTING_ENCLAVE_REPORT_DATA_START + ENCLAVE_REPORT_DATA_SIZE
        IN  IF ~InRange(b, start, end) \/ ~InRange(b, end, end2) THEN Panic
            ELSE
            LET report_data == Slice(b, start, end)
                zero_pad_after ==
                    Slice(b, end, end2) =
                        Zeros(ENCLAVE_REPORT_DATA_SIZE
                               - QUOTING_ENCLAVE_REPORT_DATA_DIGEST_SIZE)
            IN  IF report_data = hash /\ zero_pad_after THEN Ok
                ELSE ErrAttestationKey

----------------------------------------------------------------------------
(* Reference quotes.  A quote as the DCAP quoting library lays it out for  *)
(* n bytes of QE authentication data: the fields of lib.rs 18-86, then the *)
(* certification data header (2-byte type, 4-byte size) and the PEM        *)
(* certificate chain.  For n = 32 the chain starts at 0x41C, as in the     *)
(* test fixture hw_quote.dat.                                              *)

LeBytes(v, n) == [i \in 1..n |-> (v \div (256 ^ (i - 1))) % 256]

RefPckDer == <<48, 70, 9, 3, 66, 7>> \o RefPckPoint \o <<11>>

RefPemChain ==
    <<45, 66>> \o [i \in 1..Len(RefPckDer) |-> RefPckDer[i] + 32] \o <<45, 69>>
        \o <<45, 66, 80, 34, 45, 69>>

RefQuote(n) ==
    LET sigData == 64 + 64 + 384 + 64 + 2 + n + 6 + Len(RefPemChain)
    IN  RefHeaderAndReportBody
          \o LeBytes(sigData, 4)
          \o RefIsvSignature
          \o RefAttestationKey
          \o RefQeReport(n)
          \o RefQeSignature(n)
          \o LeBytes(n, 2)
          \o RefAuthData(n)
          \o LeBytes(5, 2) \o LeBytes(Len(RefPemChain), 4)
          \o RefPemChain

\* What a caller does to a reference quote before handing it over, as the
\* tests do (lib.rs 264-358): nothing, cut it short, change one byte, or
\* overwrite a field with zeros.
TruncatedLengths ==
    {0, 431, 432, 499, 500, 563, 564, 947, 948, 1011, 1012, 1013, 1014, 1030,
     1045, 1046, 1051, 1052, 1053}

ChangedOffsets ==
    {0, 200, 431, 432, 436, 499, 500, 563, 564, 700, 883, 884, 915, 916, 947,
     948, 1011, 1012, 1013, 1014, 1046, 1052, 1053, 1054, 1055, 1056, 1057,
     1058, 1059, 1060, 1061, 1093, 1125, 1126, 1127, 1128, 1133}

\* <<offset, amount>>: the byte at offset is increased by amount (mod 256).
Changes ==
    {<<off, 1>> : off \in ChangedOffsets}
      \cup {<<500, 23>>, <<532, 23>>, <<1061, 23>>, <<1093, 23>>, <<200, 128>>,
            <<700, 255>>}

\* <<offset, value>>: the assignments of the tests, lib.rs 267, 293, 311, 341,
\* 348, 356.
Assignments ==
    {<<565, 0>>, <<1088, 0>>, <<436, 1>>, <<500, 1>>, <<916, 1>>, <<947, 1>>}

ZeroedRanges == {<<436, 500>>, <<500, 564>>, <<436, 564>>, <<948, 1012>>}

Truncate(b, len) == SubSeq(b, 1, len)

ChangeByte(b, off, d) == [b EXCEPT ![off + 1] = (@ + d) % 256]

SetByte(b, off, v) == [b EXCEPT ![off + 1] = v]

ZeroFill(b, s, e) == SubSeq(b, 1, s) \o Zeros(e - s) \o SubSeq(b, e + 1, Len(b))

CallerInputs(b) ==
    {b}
      \cup {Truncate(b, len) : len \in {l \in TruncatedLengths : l < Len(b)}}
      \cup {ChangeByte(b, c[1], c[2]) : c \in {x \in Changes : x[1] < Len(b)}}
      \cup {SetByte(b, a[1], a[2]) : a \in {x \in Assignments : x[1] < Len(b)}}
      \cup {ZeroFill(b, r[1], r[2]) : r \in ZeroedRanges}

----------------------------------------------------------------------------
(* The state machine.                                                      *)

\* No Quote yet.
NoQuote ==
    /\ constructed = FALSE
    /\ fixture = <<>>
    /\ input = <<>>
    /\ bytes = <<>>
    /\ first = [op \in Operations |-> None]
    /\ last = [op \in Operations |-> None]
    /\ ncalls = [op \in Operations |-> 0]
    /\ caller = 0

Init ==
    /\ NoQuote
    /\ tryFromType = None
    /\ tryFromInput = <<>>
    /\ tryFromResult = None

\* Variant: the copy stops one byte early.
to_vec_one_short(s) == SubSeq(s, 1, Len(s) - 1)

\* bytes.to_vec(), lib.rs 101
to_vec(s) == SubSeq(s, 1, Len(s))

\* Quote::from_bytes, lib.rs 99-103
from_bytes ==
    /\ ~constructed
    /\ \E n \in AuthDataLengths :
         /\ fixture' = RefQuote(n)
         /\ \E in \in CallerInputs(fixture') :
              /\ input' = in
              /\ bytes' = to_vec(in)
    /\ constructed' = TRUE
    /\ UNCHANGED <<first, last, ncalls, caller>>
    /\ UNCHANGED sealVars

TotalCalls ==
    ncalls["verify_enclave_report_body"] + ncalls["verify_quoting_enclave_report"]
      + ncalls["verify_attestation_key"]

\* Variant: a call that clears the first byte it has read.
SelfAfterCallClearing(b) == IF Len(b) = 0 THEN b ELSE [b EXCEPT ![1] = 0]

\* What a &self method leaves in Quote.bytes.
SelfAfterCall(b) == b

\* A call of operation op by thread t that returns result.
Call(t, op, result) ==
    /\ constructed
    /\ TotalCalls < MaxCalls
    /\ ncalls' = [ncalls EXCEPT ![op] = @ + 1]
    /\ caller' = t
    /\ first' = [first EXCEPT ![op] = IF @ = None THEN result ELSE @]
    /\ last' = [last EXCEPT ![op] = result]
    /\ bytes' = SelfAfterCall(bytes)
    /\ UNCHANGED <<constructed, fixture, input>>
    /\ UNCHANGED sealVars

VerifyEnclaveReportBody ==
    LET result == verify_enclave_report_body(bytes)
    IN  \E t \in Threads : Call(t, "verify_enclave_report_body", result)

VerifyQuotingEnclaveReport ==
    LET result == verify_quoting_enclave_report(bytes)
    IN  \E t \in Threads : Call(t, "verify_quoting_enclave_report", result)

VerifyAttestationKey ==
    LET result == verify_attestation_key(bytes)
    IN  \E t \in Threads : Call(t, "verify_attestation_key", result)

Next ==
    \/ from_bytes
    \/ VerifyEnclaveReportBody
    \/ VerifyQuotingEnclaveReport
    \/ VerifyAttestationKey

Spec == Init /\ [][Next]_vars

----------------------------------------------------------------------------
(* Sealed data, seal.rs lines 20-70.  Both wrappers hold a byte slice that  *)
(* is to be read as a dynamically sized C structure; try_from checks that   *)
(* the slice is long enough for the structure and for the payload whose     *)
(* size the structure declares.  usize is 64 bits wide on the SGX target,   *)
(* so payload_size + size_of cannot wrap for a 32-bit payload size.         *)

\* mem::size_of::<u32>(), seal.rs 38
SIZE == 4

\* mem::size_of::<sgx_aes_gcm_data_t>(): payload_size (4), reserved (12),
\* payload_tag (16), then the payload.
SIZE_OF_SGX_AES_GCM_DATA_T == 32

\* mem::size_of::<sgx_sealed_data_t>(): key_request (512), plain_text_offset
\* (4), reserved (12), aes_data (32).
SIZE_OF_SGX_SEALED_DATA_T == 560

ErrInvalidInputLength == "FfiError::InvalidInputLength"

\* u32::from_le_bytes
u32_from_le_bytes(four) ==
    four[1] + 256 * four[2] + 65536 * four[3] + 16777216 * four[4]

\* AesGcmData::payload_size, seal.rs 37-47.  bytes.get(..SIZE) is None when
\* the slice is shorter than SIZE.
payload_size(b) ==
    IF SIZE > Len(b) THEN Failed
    ELSE LET size_bytes == Slice(b, 0, SIZE)
         IN  Got(u32_from_le_bytes(size_bytes))

\* Variant: the declared payload is not counted.
AesGcmData_try_from_header_only(b) ==
    LET size == payload_size(b)
    IN  IF size.err THEN ErrInvalidInputLength
        ELSE IF Len(b) < SIZE_OF_SGX_AES_GCM_DATA_T THEN ErrInvalidInputLength
        ELSE Ok

\* impl TryFrom<&[u8]> for AesGcmData, seal.rs 20-30
AesGcmData_try_from(b) ==
    LET size == payload_size(b)
    IN  IF size.err THEN ErrInvalidInputLength
        ELSE IF Len(b) < size.val + SIZE_OF_SGX_AES_GCM_DATA_T
        THEN ErrInvalidInputLength
        ELSE Ok

\* impl TryFrom<&[u8]> for SealedData, seal.rs 62-70.  bytes.get(offset..) is
\* None when offset lies past the end of the slice.
SealedData_try_from(b) ==
    LET offset == SIZE_OF_SGX_SEALED_DATA_T - SIZE_OF_SGX_AES_GCM_DATA_T
    IN  IF offset > Len(b) THEN ErrInvalidInputLength
        ELSE LET aes_gcm_bytes == SliceFrom(b, offset)
             IN  IF AesGcmData_try_from(aes_gcm_bytes) # Ok
                 THEN ErrInvalidInputLength
                 ELSE Ok

\* The buffers of the tests, seal.rs 81-178: a default (all-zero) structure
\* whose payload_size field is set, followed by the payload and zeros up to
\* BUFFER_SIZE.
BUFFER_SIZE == SIZE_OF_SGX_SEALED_DATA_T + 256

Payload(n) == [i \in 1..n |-> (i % 251) + 1] \o <<>>

sealed_data_to_bytes(n) ==
    Zeros(SIZE_OF_SGX_SEALED_DATA_T - SIZE_OF_SGX_AES_GCM_DATA_T)
      \o LeBytes(n, 4) \o Zeros(SIZE_OF_SGX_AES_GCM_DATA_T - 4)
      \o Payload(n) \o Zeros(256 - n)

aes_gcm_data_to_bytes(n) ==
    LeBytes(n, 4) \o Zeros(SIZE_OF_SGX_AES_GCM_DATA_T - 4)
      \o Payload(n) \o Zeros(BUFFER_SIZE - SIZE_OF_SGX_AES_GCM_DATA_T - n)

\* Payload lengths of the tests (seal.rs 182-183, 196-220, 230-232, 242-267)
\* and the largest the buffer holds.
PayloadLengths == {0, 4, 5, 10, 13, 20, 256}

\* Values of a payload_size field that no test buffer was built for.
DeclaredSizes == {1, 255, 257, 65536, 16777216, 1073741824}

\* A buffer whose payload_size field at offset at declares size.
WithDeclaredSize(b, at, size) ==
    SubSeq(b, 1, at) \o LeBytes(size, 4) \o SubSeq(b, at + 5, Len(b))

SealBuffers ==
    {sealed_data_to_bytes(n) : n \in PayloadLengths}
      \cup {aes_gcm_data_to_bytes(n) : n \in PayloadLengths}
      \cup {WithDeclaredSize(sealed_data_to_bytes(0),
                              SIZE_OF_SGX_SEALED_DATA_T - SIZE_OF_SGX_AES_GCM_DATA_T, d) :
               d \in DeclaredSizes}
      \cup {WithDeclaredSize(aes_gcm_data_to_bytes(0), 0, d) : d \in DeclaredSizes}

\* The lengths &bytes[..size] cuts a buffer to (seal.rs 198-291).
SealLengths ==
    {0, 3, 4, 5, 31, 32, 33, 35, 36, 37, 41, 42, 287, 288, 289, 527, 528, 529,
     531, 532, 559, 560, 561, 563, 564, 565, 570, 815, 816}

SealInputs == {Truncate(b, len) : b \in SealBuffers, len \in SealLengths}

\* A caller holds one of the buffers and has converted nothing yet.
SealInit ==
    /\ NoQuote
    /\ tryFromType = None
    /\ tryFromInput \in SealInputs
    /\ tryFromResult = None

TryFrom(type, result) ==
    /\ tryFromType' = type
    /\ tryFromResult' = result
    /\ UNCHANGED tryFromInput
    /\ UNCHANGED quoteVars

SealedDataTryFrom == TryFrom("SealedData", SealedData_try_from(tryFromInput))

AesGcmDataTryFrom == TryFrom("AesGcmData", AesGcmData_try_from(tryFromInput))

SealNext ==
    \/ SealedDataTryFrom
    \/ AesGcmDataTryFrom

SealSpec == SealInit /\ [][SealNext]_vars

----------------------------------------------------------------------------
(* Properties.  Offsets in the formulas are the numbers of the format      *)
(* tables, written out; SubSeq(b, s + 1, e) is the byte range s..e.        *)

VERB == "verify_enclave_report_body"
VQER == "verify_quoting_enclave_report"
VAK == "verify_attestation_key"

Called(op) == constructed /\ last[op] # None

Returned == {Ok} \cup Errors

\* The QE authentication data length a buffer of at least 1014 bytes declares.
DeclaredAuthLen(b) == b[1013] + 256 * b[1014]

\* The first offset in lo..hi at which two different buffers of equal
\* length differ, found by halving.
RECURSIVE FirstChange(_, _, _, _)
FirstChange(a, b, lo, hi) ==
    IF lo = hi THEN lo
    ELSE LET mid == (lo + hi) \div 2
         IN  IF SubSeq(a, lo + 1, mid + 1) # SubSeq(b, lo + 1, mid + 1)
             THEN FirstChange(a, b, lo, mid)
             ELSE FirstChange(a, b, mid + 1, hi)

TheChangedOffset == FirstChange(fixture, bytes, 0, Len(bytes) - 1)

\* The quote is the reference quote with exactly one byte changed.
OneByteChanged ==
    /\ constructed
    /\ Len(bytes) = Len(fixture)
    /\ bytes # fixture
    /\ SubSeq(bytes, TheChangedOffset + 2, Len(bytes))
          = SubSeq(fixture, TheChangedOffset + 2, Len(bytes))

(* C1: for every buffer of every length, each of the three operations      *)
(* returns Ok or an Error value; a field access past the end of the buffer *)
(* is a returned error, never a panic.                                      *)
C1_EveryCallReturns ==
    \A op \in Operations : Called(op) => last[op] \in Returned

(* C2: on a buffer long enough for every field read, verify_attestation_key *)
(* returns Ok exactly when bytes 884..916 equal SHA-256(bytes 500..564 ||   *)
(* authentication data) and bytes 916..948 are all zero, and                *)
(* Error::AttestationKey in every other case.                               *)
C2_DigestMatches ==
    SubSeq(bytes, 885, 916) =
        Sha256(SubSeq(bytes, 501, 564)
                 \o SubSeq(bytes, 1015, 1014 + DeclaredAuthLen(bytes)))

C2_PaddingIsZero == \A i \in 917..948 : bytes[i] = 0

C2_LongEnough ==
    /\ Len(bytes) >= 1014
    /\ Len(bytes) >= 1014 + DeclaredAuthLen(bytes)

C2_AttestationKeyBinding ==
    (Called(VAK) /\ C2_LongEnough) =>
        last[VAK] = IF C2_DigestMatches /\ C2_PaddingIsZero THEN Ok
                    ELSE ErrAttestationKey

C2_Witness ==
    /\ Called(VAK)
    /\ C2_LongEnough
    /\ C2_DigestMatches
    /\ ~C2_PaddingIsZero
    /\ last[VAK] = ErrAttestationKey

(* C3: on a buffer of length L >= 1014 whose declared authentication data   *)
(* length n has 1014 + n > L, verify_attestation_key fails with a returned  *)
(* error and does not panic.                                                *)
C3_ShortAuthDataIsReturnedError ==
    (/\ Called(VAK)
     /\ Len(bytes) >= 1014
     /\ 1014 + DeclaredAuthLen(bytes) > Len(bytes)) => last[VAK] \in Errors

(* C4: on a buffer that ends at or before the certificate start offset      *)
(* (any length L <= 1052), verify_quoting_enclave_report returns            *)
(* Error::PemParsing.                                                       *)
C4_TruncatedIsPemParsing ==
    (Called(VQER) /\ Len(bytes) <= 1052) => last[VQER] = ErrPemParsing

(* C5: the offset at which the PEM certification data is parsed lies after  *)
(* the end of the QE authentication data, offset >= 1014 + n, n being the   *)
(* length declared at bytes 1012..1014.                                     *)
C5_PemOffsetFollowsAuthData ==
    (Called(VQER) /\ Len(bytes) >= 1052) =>
        PckPemOffset(bytes) >= 1014 + DeclaredAuthLen(bytes)

(* C6: verify_enclave_report_body checks the signature at 436..500 over    *)
(* bytes 0..432 under the key at 500..564 and orders its failures: a key    *)
(* that is no curve point gives Error::Key whatever the signature bytes     *)
(* are; with a key that decodes, a malformed or non-matching signature      *)
(* gives Error::Signature, and a matching one Ok.                           *)
C6_KeyDecodes == ValidPoint(<<4>> \o SubSeq(bytes, 501, 564))

C6_SignatureParses ==
    /\ \E i \in 437..468 : bytes[i] # 0
    /\ \E i \in 469..500 : bytes[i] # 0

C6_SignatureMatches ==
    <<<<4>> \o SubSeq(bytes, 501, 564), SubSeq(bytes, 1, 432),
      SubSeq(bytes, 437, 500)>> \in SignedStatements

C6_KeyErrorBeforeSignatureError ==
    (Called(VERB) /\ Len(bytes) >= 564) =>
        last[VERB] = IF ~C6_KeyDecodes THEN ErrKey
                     ELSE IF C6_SignatureParses /\ C6_SignatureMatches THEN Ok
                     ELSE ErrSignature

C6_Witness ==
    /\ Called(VERB)
    /\ Len(bytes) >= 564
    /\ ~C6_KeyDecodes
    /\ ~C6_SignatureParses
    /\ last[VERB] = ErrKey

(* C7: from a quote on which the operation succeeds, changing one byte of   *)
(* the signed region (0..432 for verify_enclave_report_body, 564..948 for   *)
(* verify_quoting_enclave_report) and nothing else makes that operation     *)
(* fail with Error::Signature.                                              *)
C7_SignedRegionChangeIsSignatureError ==
    ((Called(VERB) \/ Called(VQER)) /\ OneByteChanged) =>
        /\ (/\ Called(VERB)
            /\ TheChangedOffset < 432
            /\ verify_enclave_report_body(fixture) = Ok) => last[VERB] = ErrSignature
        /\ (/\ Called(VQER)
            /\ TheChangedOffset >= 564
            /\ TheChangedOffset < 948
            /\ verify_quoting_enclave_report(fixture) = Ok) => last[VQER] = ErrSignature

C7_Witness ==
    /\ Called(VQER)
    /\ OneByteChanged
    /\ TheChangedOffset >= 564
    /\ TheChangedOffset < 948
    /\ verify_quoting_enclave_report(fixture) = Ok
    /\ last[VQER] = ErrSignature

(* C8: from a quote on which verify_quoting_enclave_report succeeds,        *)
(* changing one byte at an offset >= 1052 (length unchanged) makes the      *)
(* operation fail with Error::PemParsing or Error::Certificate.             *)
C8_CertificateChanged ==
    /\ Called(VQER)
    /\ OneByteChanged
    /\ TheChangedOffset >= 1052
    /\ verify_quoting_enclave_report(fixture) = Ok

C8_Original ==
    C8_CertificateChanged => last[VQER] \in {ErrPemParsing, ErrCertificate}

\* The offset just past the first PEM block of the reference quote.
C8_FirstBlockEnd == 1052 + PemFooterAt(SliceFrom(fixture, 1052)) + 1

(* C8, amended: the result is then Ok, Error::PemParsing or                 *)
(* Error::Signature and never Error::Certificate; a changed byte after the  *)
(* first PEM block, which is never read, leaves the result Ok.              *)
C8_CertificateChangeOutcomes ==
    C8_CertificateChanged =>
        /\ last[VQER] \in {Ok, ErrPemParsing, ErrSignature}
        /\ TheChangedOffset >= C8_FirstBlockEnd => last[VQER] = Ok

C8_Witness ==
    /\ C8_CertificateChanged
    /\ TheChangedOffset >= C8_FirstBlockEnd
    /\ last[VQER] = Ok

(* C9: every call of an operation on a Quote returns what its first call    *)
(* returned, whichever operations and threads ran in between and whatever   *)
(* they returned, and the Quote's bytes stay the bytes it was built from.   *)
ResultOf(op, b) ==
    IF op = VERB THEN verify_enclave_report_body(b)
    ELSE IF op = VQER THEN verify_quoting_enclave_report(b)
    ELSE verify_attestation_key(b)

C9_CallsAgreeAndBytesStay ==
    constructed =>
        /\ bytes = input
        /\ \A op \in Operations :
              /\ last[op] = first[op]
              /\ ncalls[op] > 0 => last[op] = ResultOf(op, input)

C9_Witness ==
    /\ constructed
    /\ ncalls[VAK] >= 2
    /\ ncalls[VERB] >= 1
    /\ last[VAK] = first[VAK]
    /\ last[VERB] # last[VAK]
    /\ caller = 2

(* C10: the fields lie at the offsets of the format tables and tile the     *)
(* buffer: header and report body 0..432, signature data length 432..436,   *)
(* ISV signature 436..500, attestation key 500..564, QE report 564..948     *)
(* (report data 884..948), QE report signature 948..1012, authentication    *)
(* data length 1012..1014 (little-endian), authentication data from 1014.   *)
C10_Offsets ==
    /\ QUOTE_HEADER_SIZE + ENCLAVE_REPORT_SIZE = 432
    /\ ISV_ENCLAVE_SIGNATURE_START = 432 + 4
    /\ ISV_ENCLAVE_SIGNATURE_START + SIGNATURE_SIZE = 500
    /\ ATTESTATION_KEY_START = 500
    /\ ATTESTATION_KEY_START + KEY_SIZE = 564
    /\ QUOTING_ENCLAVE_REPORT_START = 564
    /\ QUOTING_ENCLAVE_REPORT_START + ENCLAVE_REPORT_SIZE = 948
    /\ QUOTING_ENCLAVE_REPORT_DATA_START = 884
    /\ QUOTING_ENCLAVE_REPORT_DATA_START + ENCLAVE_REPORT_DATA_SIZE = 948
    /\ QUOTING_ENCLAVE_SIGNATURE_START = 948
    /\ QUOTING_ENCLAVE_SIGNATURE_START + SIGNATURE_SIZE = 1012
    /\ QUOTING_ENCLAVE_AUTHENTICATION_DATA_SIZE_START = 1012
    /\ QUOTING_ENCLAVE_AUTHENTICATION_DATA_START = 1014

\* On an unchanged reference quote every accessor returns the field the
\* quoting library wrote.
C10_AccessorsReturnTheFields ==
    LET n == DeclaredAuthLen(fixture)
    IN  /\ get_header_and_enclave_report_body(bytes) = Got(RefHeaderAndReportBody)
        /\ get_attestation_key(bytes) = Got(<<4>> \o RefAttestationKey)
        /\ get_quoting_enclave_report(bytes) = Got(RefQeReport(n))
        /\ get_qe_authentication_data(bytes) = Got(RefAuthData(n))
        /\ n = Len(RefAuthData(n))
        /\ SubSeq(bytes, 437, 500) = RefIsvSignature
        /\ SubSeq(bytes, 949, 1012) = RefQeSignature(n)
        /\ SubSeq(bytes, 885, 916) = Sha256(RefAttestationKey \o RefAuthData(n))

C10_FieldsAtTableOffsets ==
    /\ C10_Offsets
    /\ (constructed /\ bytes = fixture) => C10_AccessorsReturnTheFields

C10_Witness ==
    /\ constructed
    /\ bytes = fixture
    /\ DeclaredAuthLen(fixture) = 258
    /\ bytes[1013] = 2
    /\ bytes[1014] = 1
    /\ last[VAK] = Ok

(* C11: Quote::from_bytes is total: whatever the input, of whatever length  *)
(* and the empty one included, construction is possible, it ends with a     *)
(* Quote (no error, no panic), and the Quote's bytes equal the input byte   *)
(* for byte.                                                                *)
C11_FromBytesIsTotal ==
    /\ ~constructed => ENABLED from_bytes
    /\ constructed => (Len(bytes) = Len(input) /\ bytes = input)

C11_Witness ==
    /\ constructed
    /\ Len(input) = 0
    /\ bytes = <<>>
    /\ fixture # <<>>

(* C12: with S = 560 and A = 32 the structure sizes, SealedData::try_from   *)
(* returns Ok exactly when the buffer holds S + p bytes or more, p being    *)
(* the little-endian u32 at offset S - A, and AesGcmData::try_from exactly  *)
(* when it holds A + p bytes or more, p being the little-endian u32 at      *)
(* offset 0; every other buffer, however short, gets                        *)
(* FfiError::InvalidInputLength, and no buffer makes either panic.          *)
C12_DeclaredPayload(b, at) ==
    b[at + 1] + 256 * b[at + 2] + 65536 * b[at + 3] + 16777216 * b[at + 4]

C12_Expected(b, structSize, at) ==
    IF Len(b) < structSize THEN ErrInvalidInputLength
    ELSE IF Len(b) >= structSize + C12_DeclaredPayload(b, at) THEN Ok
    ELSE ErrInvalidInputLength

C12_LengthValidation ==
    /\ tryFromType = "SealedData" =>
          tryFromResult = C12_Expected(tryFromInput, 560, 560 - 32)
    /\ tryFromType = "AesGcmData" =>
          tryFromResult = C12_Expected(tryFromInput, 32, 0)

C12_Witness ==
    /\ tryFromType = "SealedData"
    /\ Len(tryFromInput) = 564
    /\ C12_DeclaredPayload(tryFromInput, 528) = 4
    /\ tryFromResult = Ok

(* C13: the result of an operation depends only on the byte ranges it      *)
(* reads: 0..432 and 436..564 for verify_enclave_report_body; 500..564,     *)
(* 884..948 and 1012..1014+n for verify_attestation_key (n the declared     *)
(* authentication data length); 564..1012 and 1052..end for                 *)
(* verify_quoting_enclave_report.  A quote of the same length that agrees   *)
(* with this one on those ranges gets the same result, even when it differs *)
(* at every other offset; the signature data length 432..436 influences no  *)
(* operation, and the two signatures and the certificate do not influence   *)
(* verify_attestation_key.                                                  *)
C13_Ranges(op, b) ==
    IF op = VERB THEN {<<0, 432>>, <<436, 564>>}
    ELSE IF op = VQER THEN {<<564, 1012>>, <<1052, Len(b)>>}
    ELSE {<<500, 564>>, <<884, 948>>,
          <<1012, 1014 + (IF Len(b) >= 1014 THEN DeclaredAuthLen(b) ELSE 0)>>}

C13_InRanges(op, b, off) == \E r \in C13_Ranges(op, b) : r[1] <= off /\ off < r[2]

\* The quote that agrees with b on the ranges of op and differs from it at
\* every other offset.
C13_Other(op, b) ==
    [i \in 1..Len(b) |-> IF C13_InRanges(op, b, i - 1) THEN b[i] ELSE 255 - b[i]]
        \o <<>>

\* The quotes that differ from b in one byte of the signature data length.
C13_OtherLength(b) ==
    {ChangeByte(b, off, 1) : off \in {o \in 432..435 : o < Len(b)}}

\* The quote that differs from b in the ISV signature, the QE report
\* signature and the certificate (what lies at 1052 or later and after the
\* authentication data), and in nothing else.
C13_OtherSignatures(b) ==
    [i \in 1..Len(b) |->
        IF \/ (436 < i /\ i <= 500)
           \/ (948 < i /\ i <= 1012)
           \/ (1052 < i /\ ~C13_InRanges(VAK, b, i - 1))
        THEN 255 - b[i] ELSE b[i]] \o <<>>

\* Checked where the operation has just returned from the first call made
\* on the Quote.
C13_ResultDependsOnlyOnReadRanges ==
    \A op \in Operations :
        (Called(op) /\ TotalCalls = 1) =>
            /\ ResultOf(op, C13_Other(op, bytes)) = last[op]
            /\ \A c \in C13_OtherLength(bytes) : ResultOf(op, c) = last[op]
            /\ op = VAK => ResultOf(op, C13_OtherSignatures(bytes)) = last[op]

C13_Witness ==
    /\ Called(VAK)
    /\ TotalCalls = 1
    /\ last[VAK] = Ok
    /\ bytes = fixture
    /\ DeclaredAuthLen(bytes) = 32
    /\ C13_Other(VAK, bytes) # bytes
    /\ C13_Other(VAK, bytes)[437] # bytes[437]
    /\ C13_Other(VAK, bytes)[1053] # bytes[1053]
    /\ ResultOf(VAK, C13_Other(VAK, bytes)) = Ok

(* C14: the lengths that rule out an out-of-range slice.  On a buffer of    *)
(* length L verify_enclave_report_body slices in range when L >= 564,       *)
(* verify_quoting_enclave_report when L >= 1052, verify_attestation_key     *)
(* when L >= 1014 + n (n the little-endian u16 at 1012..1014), and the      *)
(* operation then returns Ok or an Error; each bound is the least one: on   *)
(* a shorter buffer the operation slices out of range.                      *)
C14_SufficientLength(op, b) ==
    IF op = VERB THEN 564
    ELSE IF op = VQER THEN 1052
    ELSE IF Len(b) < 1014 THEN 1014
    ELSE 1014 + DeclaredAuthLen(b)

C14_LeastSufficientLengths ==
    \A op \in Operations :
        Called(op) =>
            IF Len(bytes) >= C14_SufficientLength(op, bytes)
            THEN last[op] \in Returned
            ELSE last[op] = Panic

C14_Witness ==
    /\ Called(VAK)
    /\ Len(bytes) = 1046
    /\ DeclaredAuthLen(bytes) = 32
    /\ last[VAK] \in Returned
    /\ Called(VQER)
    /\ last[VQER] = Panic

(* C15: the error kinds an operation can return.  No operation returns      *)
(* Error::Certificate.  What verify_enclave_report_body returns is Ok,      *)
(* Error::Key or Error::Signature; what verify_quoting_enclave_report       *)
(* returns is Ok, Error::PemParsing or Error::Signature, and a certificate  *)
(* whose public key does not decode as a curve point gives                  *)
(* Error::Signature, not Error::Key; what verify_attestation_key returns    *)
(* is Ok or Error::AttestationKey.                                          *)
C15_Kinds(op) ==
    IF op = VERB THEN {Ok, ErrKey, ErrSignature}
    ELSE IF op = VQER THEN {Ok, ErrPemParsing, ErrSignature}
    ELSE {Ok, ErrAttestationKey}

\* The certificate at 1052 parses, and its public key is no curve point.
C15_CertificateKeyDoesNotDecode ==
    /\ Len(bytes) >= 1052
    /\ LET pem == parse_x509_pem(SubSeq(bytes, 1053, Len(bytes)))
       IN  /\ ~pem.err
           /\ LET cert == parse_x509(pem.contents)
              IN  /\ ~cert.err
                  /\ from_public_key_der(cert.spki).err

C15_ReachableErrorKinds ==
    \A op \in Operations :
        Called(op) =>
            /\ last[op] # ErrCertificate
            /\ last[op] \in Returned => last[op] \in C15_Kinds(op)
            /\ (op = VQER /\ C15_CertificateKeyDoesNotDecode) =>
                  last[op] = ErrSignature

C15_Witness ==
    /\ Called(VQER)
    /\ C15_CertificateKeyDoesNotDecode
    /\ last[VQER] = ErrSignature
    /\ Called(VERB)
    /\ last[VERB] = Ok

=============================================================================
